---- MODULE Spec2Model ----
(***************************************************************************)
(* Model of web/info/views.py: the request handler info(request).          *)
(*                                                                         *)
(*   def info(request):                                                    *)
(*       template = loader.get_template("info/index.html")     (line 8)    *)
(*       return render(request, "info/index.html")             (line 9)    *)
(*                                                                         *)
(* Each worker runs one invocation at a time, one source line per step.    *)
(* The template-resolution service (django.template.loader and             *)
(* django.shortcuts.render) is the handler's collaborator: it is modelled  *)
(* by the operators get_template, render_to_string and render over the     *)
(* template store.                                                         *)
(***************************************************************************)
EXTENDS Naturals, Sequences, FiniteSets

VARIABLES
    store,       \* template store: template identifier -> template resource
    modGlobals,  \* names bound at module level of views.py
    pc,          \* per worker: "idle", "line8", "line9", "returned", "raised"
    request,     \* per worker: the request of the current invocation
    template,    \* per worker: the local variable `template` (line 8)
    result,      \* per worker: what the invocation ended with (response / exception)
    calls,       \* per worker: the calls this invocation made to the service
    delivered    \* per worker: the response the framework sent for the invocation

vars == <<store, modGlobals, pc, request, template, result, calls, delivered>>

(* ------------------------------ bounds --------------------------------- *)

\* Number of concurrently running invocations (framework workers).
NumWorkers == 2

Workers == 1..NumWorkers

(* ------------------------------ values --------------------------------- *)

None == [kind |-> "None"]

\* Requests differing in method, query parameters and headers.
Requests ==
    { [method |-> "GET",  query |-> "",           headers |-> ""],
      [method |-> "POST", query |-> "",           headers |-> ""],
      [method |-> "GET",  query |-> "page=other", headers |-> ""],
      [method |-> "GET",  query |-> "",           headers |-> "X-Debug"] }

\* Variant: line 8 looks up another identifier than line 9 renders.
TemplateArg8_Other == "info/other.html"

\* The identifier passed to loader.get_template on line 8.
TemplateArg8 == "info/index.html"

\* Variant: line 9 renders another identifier than line 8 looked up.
TemplateArg9_Other == "info/other.html"

\* The identifier passed to render on line 9.
TemplateArg9 == "info/index.html"

OtherTemplate == "info/other.html"

TemplateNames == {"info/index.html", OtherTemplate}

\* Template nodes: literal text, or a variable resolved from the request.
Text(s) == [node |-> "text", val |-> s]
Var(v)  == [node |-> "var",  val |-> v]

\* A template resource: absent, unparsable, failing while rendering, or loadable.
Missing       == [state |-> "missing", nodes |-> <<>>]
Invalid       == [state |-> "invalid", nodes |-> <<>>]
Broken        == [state |-> "broken",  nodes |-> <<Text("<h1>Info</h1>")>>]
Loaded(nodes) == [state |-> "ok",      nodes |-> nodes]

\* The info page is a static page (no dynamic context).
InfoTemplates ==
    { Missing, Invalid, Broken,
      Loaded(<<Text("<h1>Info</h1>")>>),
      Loaded(<<Text("<h1>Info</h1>"), Text("<p>v2</p>")>>) }

\* Another template of the store, which does read the request.
OtherTemplates ==
    { Missing, Loaded(<<Text("<h1>Other</h1>"), Var("method"), Var("query")>>) }

Stores ==
    { s \in [TemplateNames -> InfoTemplates \cup OtherTemplates] :
        /\ s["info/index.html"] \in InfoTemplates
        /\ s[OtherTemplate] \in OtherTemplates }

\* Names bound at module level once views.py is imported (lines 1-3, 6).
InitGlobals == {"HttpResponse", "render", "loader", "info"}

HTTP_OK == 200
HTTP_SERVER_ERROR == 500

Response(status, body) == [kind |-> "response", status |-> status, body |-> body]
Exception(name)        == [kind |-> "exception", exc |-> name]

(* ----------------------- template-resolution service -------------------- *)

\* loader.get_template(name): the template, or the lookup failure.
get_template(name, st) ==
    IF st[name].state = "missing" THEN Exception("TemplateDoesNotExist")
    ELSE IF st[name].state = "invalid" THEN Exception("TemplateSyntaxError")
    ELSE [kind |-> "template", name |-> name, tpl |-> st[name]]

RenderNode(n, req) ==
    IF n.node = "text" THEN n.val
    ELSE IF n.val = "method" THEN req.method
    ELSE IF n.val = "query" THEN req.query
    ELSE ""

RECURSIVE RenderNodes(_, _)
RenderNodes(nodes, req) ==
    IF nodes = <<>> THEN ""
    ELSE RenderNode(Head(nodes), req) \o RenderNodes(Tail(nodes), req)

\* loader.render_to_string(name, request=req): look the template up, render it.
render_to_string(name, req, st) ==
    LET t == get_template(name, st) IN
    IF t.kind = "exception" THEN t
    ELSE IF t.tpl.state = "broken" THEN Exception("TemplateRenderError")
    ELSE [kind |-> "content", body |-> RenderNodes(t.tpl.nodes, req)]

\* render(request, name): HttpResponse(render_to_string(...)), default status.
render(req, name, st) ==
    LET c == render_to_string(name, req, st) IN
    IF c.kind = "exception" THEN c ELSE Response(HTTP_OK, c.body)

\* The framework's default answer to an exception leaving a handler.
ServerErrorResponse == Response(HTTP_SERVER_ERROR, "Server Error (500)")

(* ------------------------------ the handler ----------------------------- *)

Failed(r) == r.kind = "exception"

Call(op, name, r) == [op |-> op, name |-> name, failed |-> Failed(r)]

\* Variant: `global template`, the assignment of line 8 binds a module-level name.
GlobalsAfterLine8_Global(g, r) == IF Failed(r) THEN g ELSE g \cup {"template"}

\* Line 8 binds the local name `template`; module-level names are untouched.
GlobalsAfterLine8(g, r) == g

\* Variant: the lookup of line 8 wrapped in try/except: pass.
AfterLine8_Swallow(r) == "line9"

\* Line 8 has no try/except: a lookup failure leaves the handler at once.
AfterLine8(r) == IF Failed(r) THEN "raised" ELSE "line9"

\* Variant: the identifier taken from the query string of the request.
Line9Template_FromRequest(req) ==
    IF req.query = "page=other" THEN OtherTemplate ELSE TemplateArg9

\* The identifier line 9 hands to render: a literal, whatever the request is.
Line9Template(req) == TemplateArg9

\* Variant: render(..., status=404).
ResultOfLine9_Status(w, r) == IF Failed(r) THEN r ELSE Response(404, r.body)

\* Variant: the failure caught and answered with the fallback page of line 7.
ResultOfLine9_Caught(w, r) ==
    IF Failed(r) THEN Response(HTTP_OK, "Welcome to the Info Page") ELSE r

\* Variant: a non-reentrant handler, failing while another invocation renders.
ResultOfLine9_Busy(w, r) ==
    IF \E v \in Workers \ {w} : pc[v] = "line9" THEN Exception("Busy") ELSE r

\* Line 9 returns what render returned; a failure of render is not caught.
ResultOfLine9(w, r) == r

\* Variant: the handler blocks when rendering fails and never comes back.
AfterLine9_Hang(r) == IF Failed(r) THEN "blocked" ELSE "returned"

\* The handler ends with line 9: by its return, or by the exception raised.
AfterLine9(r) == IF Failed(r) THEN "raised" ELSE "returned"

\* info(request) run start to end with nothing interleaved.
InfoAlone(req, st) ==
    LET t == get_template(TemplateArg8, st) IN
    IF Failed(t) THEN t ELSE render(req, TemplateArg9, st)

\* The handler without the assignment of line 8.
InfoWithoutLookup(req, st) == render(req, TemplateArg9, st)

(* -------------------------------- actions ------------------------------- *)

Init ==
    /\ store \in Stores
    /\ modGlobals = InitGlobals
    /\ pc = [w \in Workers |-> "idle"]
    /\ request = [w \in Workers |-> None]
    /\ template = [w \in Workers |-> None]
    /\ result = [w \in Workers |-> None]
    /\ calls = [w \in Workers |-> <<>>]
    /\ delivered = [w \in Workers |-> None]

\* The framework routes a request to the handler: info(req) starts.
Invoke(w, req) ==
    /\ pc[w] = "idle"
    /\ pc' = [pc EXCEPT ![w] = "line8"]
    /\ request' = [request EXCEPT ![w] = req]
    /\ template' = [template EXCEPT ![w] = None]
    /\ result' = [result EXCEPT ![w] = None]
    /\ calls' = [calls EXCEPT ![w] = <<>>]
    /\ delivered' = [delivered EXCEPT ![w] = None]
    /\ UNCHANGED <<store, modGlobals>>

\* template = loader.get_template("info/index.html")
Line8(w) ==
    /\ pc[w] = "line8"
    /\ LET r == get_template(TemplateArg8, store) IN
        /\ calls' = [calls EXCEPT ![w] = Append(@, Call("get_template", TemplateArg8, r))]
        /\ template' = [template EXCEPT ![w] = IF Failed(r) THEN None ELSE r]
        /\ result' = [result EXCEPT ![w] = IF Failed(r) THEN r ELSE None]
        /\ modGlobals' = GlobalsAfterLine8(modGlobals, r)
        /\ pc' = [pc EXCEPT ![w] = AfterLine8(r)]
    /\ UNCHANGED <<store, request, delivered>>

\* return render(request, "info/index.html")
Line9(w) ==
    /\ pc[w] = "line9"
    /\ LET name == Line9Template(request[w])
           s == render(request[w], name, store)
           r == ResultOfLine9(w, s) IN
        /\ calls' = [calls EXCEPT ![w] = Append(@, Call("render", name, s))]
        /\ result' = [result EXCEPT ![w] = r]
        /\ pc' = [pc EXCEPT ![w] = AfterLine9(r)]
    /\ UNCHANGED <<store, modGlobals, request, template, delivered>>

\* The framework sends the handler's response, or its own error response
\* when an exception left the handler; the worker is free again.
Deliver(w) ==
    /\ pc[w] \in {"returned", "raised"}
    /\ delivered' = [delivered EXCEPT ![w] =
                        IF pc[w] = "returned" THEN result[w] ELSE ServerErrorResponse]
    /\ pc' = [pc EXCEPT ![w] = "idle"]
    /\ UNCHANGED <<store, modGlobals, request, template, result, calls>>

Next ==
    \/ \E w \in Workers, req \in Requests : Invoke(w, req)
    \/ \E w \in Workers : Line8(w)
    \/ \E w \in Workers : Line9(w)
    \/ \E w \in Workers : Deliver(w)

Spec == Init /\ [][Next]_vars

\* Once invoked the handler runs to its end and the framework answers; new
\* requests need not keep arriving.
Fairness ==
    \A w \in Workers :
        /\ WF_vars(Line8(w))
        /\ WF_vars(Line9(w))
        /\ WF_vars(Deliver(w))

FairSpec == Spec /\ Fairness

TypeOK ==
    /\ store \in Stores
    /\ modGlobals \subseteq InitGlobals \cup {"template"}
    /\ pc \in [Workers -> {"idle", "line8", "line9", "returned", "raised"}]
    /\ \A w \in Workers : request[w] \in Requests \cup {None}

(* -------------------------------- claims -------------------------------- *)

Ended(w) == pc[w] \in {"returned", "raised"}

InfoPage == "info/index.html"

\* C1: whatever the request, a response the handler returns has status 200,
\* and with a template that loads and renders the handler does return one.
C1_Status200 ==
    \A w \in Workers :
        /\ pc[w] = "returned" =>
              /\ result[w].kind = "response"
              /\ result[w].status = 200
        /\ (Ended(w) /\ store[InfoPage].state = "ok") => pc[w] = "returned"

C1_Witness ==
    \E w \in Workers :
        /\ pc[w] = "returned"
        /\ request[w].method = "POST"
        /\ result[w].status = 200

\* C2: the body of a returned response is the rendering of "info/index.html",
\* and that rendering is the same for every request: two invocations with
\* different requests return the same body.
C2_BodyIndependentOfRequest ==
    \A w \in Workers :
        pc[w] = "returned" =>
            \A r0 \in Requests :
                render_to_string(InfoPage, r0, store)
                    = [kind |-> "content", body |-> result[w].body]

C2_Witness ==
    \E w, v \in Workers :
        /\ pc[w] = "returned" /\ pc[v] = "returned"
        /\ request[w].query = "page=other"
        /\ request[v].method = "POST"
        /\ result[w].body = result[v].body
        /\ result[w].body # ""

\* C3: no step of any invocation, ending by return or by failure, changes
\* the template store or the module-level state.
C3_NoExternalMutation ==
    [][store' = store /\ modGlobals' = modGlobals]_vars

C3_Witness ==
    \E w, v \in Workers :
        /\ w # v
        /\ pc[w] = "returned"
        /\ pc[v] = "idle" /\ delivered[v] # None
        /\ modGlobals = InitGlobals

\* C4: a failed lookup or rendering is the last call of its invocation (no
\* retry), the invocation ends with that exception and never with a response
\* of the handler, and the framework answers with its own error response.
C4_FailurePropagates ==
    \A w \in Workers :
        \A i \in 1..Len(calls[w]) :
            calls[w][i].failed =>
                /\ i = Len(calls[w])
                /\ pc[w] \in {"raised", "idle"}
                /\ result[w].kind = "exception"
                /\ pc[w] = "idle" => delivered[w] = ServerErrorResponse

C4_Witness ==
    \E w \in Workers :
        /\ pc[w] = "raised"
        /\ Len(calls[w]) = 2
        /\ calls[w][2].failed
        /\ result[w].exc = "TemplateRenderError"

\* C5: every invocation is eventually answered: the handler ends and a
\* response for the request is delivered.
C5_AlwaysAnswered ==
    \A w \in Workers : (pc[w] = "line8") ~> (pc[w] = "idle" /\ delivered[w] # None)

C5_Witness ==
    \E w, v \in Workers :
        /\ pc[w] = "idle" /\ delivered[w] = ServerErrorResponse
        /\ pc[v] = "line9"

\* C6: whatever the other invocations are doing, an invocation ends with
\* what the handler run alone on its request gives, and holds the template
\* its own lookup returned.
C6_InterleavingInvisible ==
    \A w \in Workers :
        /\ Ended(w) => result[w] = InfoAlone(request[w], store)
        /\ pc[w] = "line9" => template[w] = get_template(InfoPage, store)

C6_Witness ==
    \E w, v \in Workers :
        /\ w # v
        /\ pc[w] = "returned"
        /\ pc[v] = "line9"
        /\ request[w] # request[v]

\* C7: the handler ends as the handler without line 8 would: the same
\* response, or the same failure.
C7_LookupIsDead ==
    \A w \in Workers :
        Ended(w) => result[w] = InfoWithoutLookup(request[w], store)

C7_Witness ==
    \E w \in Workers :
        /\ pc[w] = "raised"
        /\ Len(calls[w]) = 1
        /\ result[w].exc = "TemplateDoesNotExist"

ExpectedCalls ==
    << [op |-> "get_template", name |-> InfoPage],
       [op |-> "render",       name |-> InfoPage] >>

CallsSoFar(w) ==
    [i \in 1..Len(calls[w]) |-> [op |-> calls[w][i].op, name |-> calls[w][i].name]]

\* C8 as stated: every invocation that has ended asked the service twice,
\* get_template then render, both for "info/index.html".
C8_TwoLookupsEach ==
    \A w \in Workers : Ended(w) => CallsSoFar(w) = ExpectedCalls

\* C8: the calls of an invocation are get_template then render, both for
\* "info/index.html" and nothing else; an invocation that has ended made both,
\* unless the first failed, and then it made that one only.
C8_LookupsInOrder ==
    \A w \in Workers :
        /\ Len(calls[w]) <= 2
        /\ CallsSoFar(w) = SubSeq(ExpectedCalls, 1, Len(calls[w]))
        /\ Ended(w) =>
              \/ Len(calls[w]) = 2
              \/ Len(calls[w]) = 1 /\ calls[w][1].failed
        /\ pc[w] = "returned" => Len(calls[w]) = 2

C8_Witness ==
    \E w \in Workers :
        /\ Ended(w)
        /\ request[w].query = "page=other"
        /\ Len(calls[w]) = 2

\* C9: when the lookup of line 8 fails, render is not called in that
\* invocation: the handler is left with the exception, at line 8.
C9_FirstFailureSkipsRender ==
    \A w \in Workers :
        (Len(calls[w]) >= 1 /\ calls[w][1].failed) =>
            /\ Len(calls[w]) = 1
            /\ calls[w][1].op = "get_template"
            /\ pc[w] \notin {"line9", "returned"}
            /\ result[w].kind = "exception"

C9_Witness ==
    \E w \in Workers :
        /\ pc[w] = "raised"
        /\ calls[w][1].failed
        /\ result[w].exc = "TemplateSyntaxError"

====
